---- MODULE Spec2Model ----
(***************************************************************************)
(* fornax: the query API (src/fornax/api.py).  The persisted tables        *)
(* (graphs, nodes, edges, queries, matches) are the state; the handles'    *)
(* methods are the actions.  QueryHandle.execute is modelled with its      *)
(* ranking and result assembly as written in api.py; fornax.select.join    *)
(* and fornax.opt.solve, which api.py calls, are modelled from spec.md.    *)
(***************************************************************************)
EXTENDS Integers, Sequences, FiniteSets, TLC

VARIABLES
    graphs,     \* model.Graph rows: a set of graph_id
    nodes,      \* model.Node rows: a set of [graph_id, node_id]
    edges,      \* model.Edge rows: a set of [graph_id, start, end]
    queries,    \* model.Query rows: a set of [query_id, start_graph_id, end_graph_id]
    matches,    \* model.Match rows: a set of [query_id, start, end, weight]
    result,     \* outcome of the most recent QueryHandle.execute call, or NoResult
    call        \* a handle method running one session at a time (see SpecSteps), or Idle

vars == <<graphs, nodes, edges, queries, matches, result, call>>

(***************************************************************************)
(* Bounds of the model.                                                    *)
(***************************************************************************)
MaxSubgraphs == 2   \* the optimiser extracts 1..MaxSubgraphs subgraphs
MaxMatches == 2     \* at most MaxMatches matches are persisted per query
Scale == 2          \* costs and weights are multiples of 1/Scale

(***************************************************************************)
(* The parameters execute is called with.                                  *)
(***************************************************************************)
NValues == {1, 2}       \* n
HopValues == {1, 2}     \* hopping_distance
IterCaps == {1, 2}      \* max_iters

(***************************************************************************)
(* Identifiers the clients use.  33477 and 34441 are two target node ids   *)
(* whose presentation ids _hash((id, 'target')) are equal.                 *)
(***************************************************************************)
GraphIds == {0, 1}
QueryIds == {0}
QueryIdSrc == {0, 1}
TargetIdSrc == {2, 33477, 34441}
MatchPairs == {<<0, 33477>>, <<1, 34441>>, <<0, 2>>}
QueryEdgeSrc == {<<0, 1>>}
TargetEdgeSrc == {<<33477, 34441>>}

NoResult == [kind |-> "none"]
Idle == [pc |-> "idle"]

(***************************************************************************)
(* _hash                                                                   *)
(***************************************************************************)
SQLITE_MAX_SIZE == 2147483647
MAX_SIZE == SQLITE_MAX_SIZE

\* int(hashlib.sha256(str((node_id, node_type)).encode('utf-8')).hexdigest(), 16)
\* % MAX_SIZE, tabulated for the keys the model uses.
Sha256Node(id, type) ==
    CASE id = 0 /\ type = "query" -> 1934515491
      [] id = 1 /\ type = "query" -> 1325512080
      [] id = 3 /\ type = "query" -> 1407667851
      [] id = 2 /\ type = "target" -> 530158102
      [] id = 33477 /\ type = "target" -> 334229712
      [] id = 34441 /\ type = "target" -> 334229712

\* The same digest of str(tuple(subgraph)), a tuple of (query_node, target_node)
\* pairs, tabulated for the sequences the model uses.
Sha256Tuple(s) ==
    CASE s = << <<0, 33477>> >> -> 708582405
      [] s = << <<1, 34441>> >> -> 1332342424
      [] s = << <<0, 2>> >> -> 332687563
      [] s = << <<0, 33477>>, <<1, 34441>> >> -> 1990332209
      [] s = << <<1, 34441>>, <<0, 33477>> >> -> 2093036309
      [] s = << <<1, 34441>>, <<0, 2>> >> -> 1889706934
      [] s = << <<0, 2>>, <<1, 34441>> >> -> 890247787

\* the remainder taken as C and Java take it: with the sign of the dividend
HashIntTruncated(item) ==
    IF item < 0 THEN -((-item) % MAX_SIZE) ELSE item % MAX_SIZE

\* _hash applied to an int
HashInt(item) == item % MAX_SIZE
\* _hash applied to (node_id, node_type)
HashNode(id, type) == Sha256Node(id, type) % MAX_SIZE
\* _hash applied to tuple(subgraph)
HashTuple(s) == Sha256Tuple(s) % MAX_SIZE

(***************************************************************************)
(* Helpers: sorted() over integers and over pairs.                         *)
(***************************************************************************)
PairLess(a, b) == a[1] < b[1] \/ (a[1] = b[1] /\ a[2] < b[2])

\* sorted(S) for a set of pairwise distinct pairs
SortedPairs(S) ==
    [p \in 1..Cardinality(S) |->
        CHOOSE x \in S : Cardinality({y \in S : PairLess(y, x)}) = p - 1]

\* sorted(S) for a set of integers
SortedInts(S) ==
    [p \in 1..Cardinality(S) |->
        CHOOSE x \in S : Cardinality({y \in S : y < x}) = p - 1]

Range(s) == {s[i] : i \in DOMAIN s}

SetMax(S) == CHOOSE x \in S : \A y \in S : y <= x

(***************************************************************************)
(* The state after import: create_all on an empty database.                *)
(***************************************************************************)
Init ==
    /\ graphs = {}
    /\ nodes = {}
    /\ edges = {}
    /\ queries = {}
    /\ matches = {}
    /\ result = NoResult
    /\ call = Idle

\* GraphHandle.create: graph_id is 0 on an empty table, else max + 1.
NextGraphId == IF graphs = {} THEN 0 ELSE SetMax(graphs) + 1

GraphCreate ==
    /\ NextGraphId \in GraphIds
    /\ graphs' = graphs \cup {NextGraphId}
    /\ result' = NoResult
    /\ UNCHANGED <<nodes, edges, queries, matches, call>>

\* QueryHandle.create: query_id is 0 on an empty table, else max + 1.
NextQueryId ==
    IF queries = {} THEN 0 ELSE SetMax({q.query_id : q \in queries}) + 1

QueryCreate(query_graph, target_graph) ==
    /\ query_graph \in graphs
    /\ target_graph \in graphs
    /\ NextQueryId \in QueryIds
    /\ queries' = queries \cup {[query_id |-> NextQueryId,
                                 start_graph_id |-> query_graph,
                                 end_graph_id |-> target_graph]}
    /\ result' = NoResult
    /\ UNCHANGED <<graphs, nodes, edges, matches, call>>

\* GraphHandle.add_nodes(id_src=ids): node_id = _hash(id_src); a node that is
\* already stored fails the insert and the transaction is rolled back.
NewNodes(graph_id, ids) ==
    {[graph_id |-> graph_id, node_id |-> HashInt(i)] : i \in ids}

AddNodes(graph_id, ids) ==
    /\ graph_id \in graphs
    /\ ids # {}
    /\ NewNodes(graph_id, ids) \cap nodes = {}
    /\ nodes' = nodes \cup NewNodes(graph_id, ids)
    /\ result' = NoResult
    /\ UNCHANGED <<graphs, edges, queries, matches, call>>

\* check_edges: an edge whose start equals its end is rejected.
check_edges(pairs) == \A i \in DOMAIN pairs : pairs[i][1] # pairs[i][2]

\* each edge stored in the direction it was given in only
NewEdgesOneWay(graph_id, pairs) ==
    {[graph_id |-> graph_id, start |-> HashInt(pairs[i][1]),
      end |-> HashInt(pairs[i][2])] : i \in DOMAIN pairs}

\* GraphHandle.add_edges(sources, targets): each edge is stored in both
\* directions; one rejected edge rolls the whole call back.  Edges refer to
\* stored nodes of the graph and are stored once (foreign keys are enforced).
NewEdges(graph_id, pairs) ==
    UNION {{[graph_id |-> graph_id, start |-> HashInt(pairs[i][1]),
             end |-> HashInt(pairs[i][2])],
            [graph_id |-> graph_id, start |-> HashInt(pairs[i][2]),
             end |-> HashInt(pairs[i][1])]} : i \in DOMAIN pairs}

AddEdges(graph_id, pairs) ==
    /\ graph_id \in graphs
    /\ pairs # <<>>
    /\ check_edges(pairs)
    /\ \A e \in NewEdges(graph_id, pairs) :
          /\ [graph_id |-> graph_id, node_id |-> e.start] \in nodes
          /\ [graph_id |-> graph_id, node_id |-> e.end] \in nodes
    /\ NewEdges(graph_id, pairs) \cap edges = {}
    /\ edges' = edges \cup NewEdges(graph_id, pairs)
    /\ result' = NoResult
    /\ UNCHANGED <<graphs, nodes, queries, matches, call>>

\* QueryHandle._check_exists
QueryExists(query_id) == \E q \in queries : q.query_id = query_id
QueryRow(query_id) == CHOOSE q \in queries : q.query_id = query_id

\* check_matches: 0 < weight <= 1, weights counted in units of 1/Scale.
check_matches(batch) == \A i \in DOMAIN batch : 0 < batch[i][3] /\ batch[i][3] <= Scale

\* QueryHandle.add_matches(sources, targets, weights)
NewMatches(query_id, batch) ==
    {[query_id |-> query_id, start |-> HashInt(batch[i][1]),
      end |-> HashInt(batch[i][2]), weight |-> batch[i][3]] : i \in DOMAIN batch}

MatchKeys(M) == {<<m.query_id, m.start, m.end>> : m \in M}

AddMatches(query_id, batch) ==
    /\ QueryExists(query_id)
    /\ batch # <<>>
    /\ check_matches(batch)
    /\ \A m \in NewMatches(query_id, batch) :
          /\ [graph_id |-> QueryRow(query_id).start_graph_id, node_id |-> m.start] \in nodes
          /\ [graph_id |-> QueryRow(query_id).end_graph_id, node_id |-> m.end] \in nodes
    /\ MatchKeys(NewMatches(query_id, batch)) \cap MatchKeys(matches) = {}
    /\ Cardinality(matches) + Len(batch) <= MaxMatches
    /\ matches' = matches \cup NewMatches(query_id, batch)
    /\ result' = NoResult
    /\ UNCHANGED <<graphs, nodes, edges, queries, call>>

(***************************************************************************)
(* QueryHandle: the reads execute makes.                                   *)
(***************************************************************************)
\* QueryHandle.__len__: the number of matches of the query
MatchCount(query_id) == Cardinality({m \in matches : m.query_id = query_id})

GraphNodeIds(graph_id) == {x.node_id : x \in {y \in nodes : y.graph_id = graph_id}}

\* QueryHandle._query_nodes, then sorted(): Node(node_id, 'query', meta)
query_nodes_of(query_id) ==
    LET ids == SortedInts(GraphNodeIds(QueryRow(query_id).start_graph_id))
    IN  [i \in DOMAIN ids |-> [id |-> ids[i], type |-> "query"]]

\* QueryHandle._target_nodes, then sorted(): Node(node_id, 'target', meta)
target_nodes_of(query_id) ==
    LET ids == SortedInts(GraphNodeIds(QueryRow(query_id).end_graph_id))
    IN  [i \in DOMAIN ids |-> [id |-> ids[i], type |-> "target"]]

\* Edge(start, end, type, meta) for a set of (start, end) pairs, sorted()
EdgeSeq(pairs, type) ==
    LET srt == SortedPairs(pairs)
    IN  [i \in DOMAIN srt |->
            [start |-> srt[i][1], end |-> srt[i][2], type |-> type, weight |-> Scale]]

\* QueryHandle._query_edges, then sorted(): stored edges with start < end
query_edges_of(query_id) ==
    EdgeSeq({<<e.start, e.end>> :
                e \in {x \in edges : /\ x.graph_id = QueryRow(query_id).start_graph_id
                                     /\ x.start < x.end}},
            "query")

\* QueryHandle._target_edges, then sorted(): the rows of target_edges_arr with
\* dist_u < 2 between target nodes give the start and end filters of the select.
target_edges_of(query_id, target_nodes, target_edges_arr) ==
    LET target_ids == {target_nodes[i].id : i \in DOMAIN target_nodes}
        rows == {r \in target_edges_arr :
                    r.dist_u < 2 /\ r.u \in target_ids /\ r.uu \in target_ids}
        starts == {IF r.u <= r.uu THEN r.u ELSE r.uu : r \in rows}
        ends == {IF r.u <= r.uu THEN r.uu ELSE r.u : r \in rows}
    IN  EdgeSeq({<<e.start, e.end>> :
                    e \in {x \in edges : /\ x.graph_id = QueryRow(query_id).end_graph_id
                                         /\ x.start \in starts
                                         /\ x.end \in ends
                                         /\ x.start < x.end}},
                "target")

(***************************************************************************)
(* fornax.select.join and fornax.opt.solve (from spec.md, sections 4.2,    *)
(* 4.3 and 6).                                                             *)
(***************************************************************************)
Neighbours(graph_id, S) ==
    S \cup {e.end : e \in {x \in edges : x.graph_id = graph_id /\ x.start \in S}}

RECURSIVE Ball(_, _, _)
Ball(graph_id, a, k) ==
    IF k = 0 THEN {a} ELSE Neighbours(graph_id, Ball(graph_id, a, k - 1))

\* get_candidate_records: one record per match and per target node at a path
\* distance below the hopping distance from the match's target node.
Join(query_id, h) ==
    LET g == QueryRow(query_id).end_graph_id
    IN  UNION {{[match_query_node |-> m.start, match_target_node |-> m.end,
                 match_weight |-> m.weight, neighbor_target_node |-> uu,
                 path_distance |-> d] :
                    uu \in IF d = 0 THEN {m.end}
                           ELSE Ball(g, m.end, d) \ Ball(g, m.end, d - 1)} :
               m \in {x \in matches : x.query_id = query_id}, d \in 0..(h - 1)}

CandidatePairs(records) ==
    {<<r.match_query_node, r.match_target_node>> : r \in records}

Injective(s) ==
    \A i, j \in DOMAIN s : i # j => s[i][1] # s[j][1] /\ s[i][2] # s[j][2]

\* The alignments that can be extracted from the candidate pairs: non-empty
\* injective partial mappings, as sequences of (query_node, target_node).
Alignments(pairs) ==
    UNION {{s \in [1..len -> pairs] : Injective(s)} : len \in 1..Cardinality(pairs)}

\* What the relaxation and the extraction leave open: the costs reached (in
\* units of 1/Scale, within [0, 1]), the disjoint alignments extracted (at least
\* one when there is a candidate) and the first round at which the change of
\* the costs falls below the threshold (a round beyond every cap: not within
\* the rounds run).  The cost of a pair that is in no alignment is never read and is
\* fixed at 0.
Outcomes(records) ==
    LET pairs == CandidatePairs(records)
    IN  {o \in [inference_costs : [pairs -> 0..Scale],
                subgraphs : UNION {[1..k -> Alignments(pairs)] :
                                      k \in (IF pairs = {} THEN 0 ELSE 1)..MaxSubgraphs},
                converged_at : 1..(SetMax(IterCaps) + 1)] :
            /\ \A i, j \in DOMAIN o.subgraphs :
                  i # j => Range(o.subgraphs[i]) \cap Range(o.subgraphs[j]) = {}
            /\ \A p \in pairs :
                  (\A i \in DOMAIN o.subgraphs : p \notin Range(o.subgraphs[i]))
                      => o.inference_costs[p] = 0}

\* sz: the number of query nodes eligible for matching
EligibleQueryNodes(query_id) ==
    Cardinality(GraphNodeIds(QueryRow(query_id).start_graph_id))

\* solve(records, hopping_distance, max_iters): rounds run until the round cap
\* or the convergence round, whichever is first.
Solve(records, hopping_distance, max_iters, sz, outcome) ==
    [inference_costs |-> outcome.inference_costs,
     subgraphs |-> outcome.subgraphs,
     iters |-> IF outcome.converged_at < max_iters
               THEN outcome.converged_at ELSE max_iters,
     sz |-> sz,
     target_edges_arr |->
        {[u |-> r.match_target_node, uu |-> r.neighbor_target_node,
          dist_u |-> r.path_distance] : r \in records}]

\* QueryHandle._optimise
optimise(query_id, hopping_distance, max_iters, outcome) ==
    Solve(Join(query_id, hopping_distance), hopping_distance, max_iters,
          EligibleQueryNodes(query_id), outcome)

(***************************************************************************)
(* QueryHandle.execute: scoring, ranking and assembly.                     *)
(***************************************************************************)
\* Node.to_dict; meta holds the id_src the node was added with
NodeToDict(node) ==
    [id |-> HashNode(node.id, node.type), type |-> node.type, id_src |-> node.id]

\* Edge.to_dict
EdgeToDict(edge) ==
    [source |-> HashNode(edge.start, IF edge.type = "match" THEN "query" ELSE edge.type),
     target |-> HashNode(edge.end, IF edge.type = "match" THEN "target" ELSE edge.type),
     type |-> edge.type,
     weight |-> edge.weight]

RECURSIVE SumCosts(_, _)
SumCosts(inference_costs, subgraph) ==
    IF subgraph = <<>> THEN 0
    ELSE inference_costs[Head(subgraph)] + SumCosts(inference_costs, Tail(subgraph))

\* the score without the charge for the unmatched query nodes
ScoreNoPenalty(inference_costs, query_nodes, subgraph, sz) ==
    [num |-> SumCosts(inference_costs, subgraph), den |-> Scale * Len(query_nodes)]

\* QueryHandle._get_scores, one subgraph: a fraction num/den, the costs being
\* counted in units of 1/Scale.
Score(inference_costs, query_nodes, subgraph, sz) ==
    [num |-> SumCosts(inference_costs, subgraph) + Scale * (sz - Len(subgraph)),
     den |-> Scale * Len(query_nodes)]

\* the scores divided by the number of query nodes the subgraph matches
get_scoresPerMatched(inference_costs, query_nodes, subgraphs, sz) ==
    [i \in DOMAIN subgraphs |-> Score(inference_costs, subgraphs[i], subgraphs[i], sz)]

get_scores(inference_costs, query_nodes, subgraphs, sz) ==
    [i \in DOMAIN subgraphs |-> Score(inference_costs, query_nodes, subgraphs[i], sz)]

ScoreLess(a, b) == a.num * b.den < b.num * a.den
ScoreEq(a, b) == a.num * b.den = b.num * a.den

\* the sort key without its second component
TieBreakNone(subgraph) == 0

\* a second component that differs from one call to the next (a salted hash)
TieBreakSalted(subgraph) ==
    IF result.kind = "ok" THEN MAX_SIZE - HashTuple(subgraph) ELSE HashTuple(subgraph)

\* the second component of the sort key: _hash(tuple(subgraphs[i]))
TieBreak(subgraph) == HashTuple(subgraph)

\* key(i) < key(j) for key = (score, _hash(tuple(subgraph)))
KeyLess(scores, subgraphs, i, j) ==
    \/ ScoreLess(scores[i], scores[j])
    \/ /\ ScoreEq(scores[i], scores[j])
       /\ TieBreak(subgraphs[i]) < TieBreak(subgraphs[j])

\* idxs = sorted(enumerate(scores), key=...): a stable sort, as indices
SortedIdxs(scores, subgraphs) ==
    LET Before(i, j) == \/ KeyLess(scores, subgraphs, i, j)
                        \/ (~KeyLess(scores, subgraphs, j, i) /\ i < j)
    IN  [p \in 1..Len(scores) |->
            CHOOSE i \in 1..Len(scores) :
                Cardinality({j \in 1..Len(scores) : Before(j, i)}) = p - 1]

\* the slice taken one too long
SelectedOneMore(idxs, n) ==
    SubSeq(idxs, 1, IF n + 1 < Len(idxs) THEN n + 1 ELSE Len(idxs))

\* idxs[:min(n, len(idxs))]
Selected(idxs, n) == SubSeq(idxs, 1, IF n < Len(idxs) THEN n ELSE Len(idxs))

\* the cost itself taken as the weight
MatchWeightRaw(inference_costs, pair) == inference_costs[pair]

\* the weight of a match edge: 1. - inference_costs[s, e]
MatchWeight(inference_costs, pair) == Scale - inference_costs[pair]

\* one pass of the loop over the selected subgraphs: nxt_graph
NxtGraph(subgraph, score, inference_costs, query_nodes, target_nodes, query_edges, target_edges) ==
    LET srt == SortedPairs(Range(subgraph))
        match_edges == [i \in DOMAIN srt |->
            EdgeToDict([start |-> srt[i][1], end |-> srt[i][2], type |-> "match",
                        weight |-> MatchWeight(inference_costs, srt[i])])]
        match_ends == {HashNode(subgraph[i][2], "target") : i \in DOMAIN subgraph}
        query_nodes_payload == [i \in DOMAIN query_nodes |-> NodeToDict(query_nodes[i])]
        query_edges_payload == [i \in DOMAIN query_edges |-> EdgeToDict(query_edges[i])]
        target_nodes_payload == [i \in DOMAIN target_nodes |-> NodeToDict(target_nodes[i])]
        target_edges_payload == [i \in DOMAIN target_edges |-> EdgeToDict(target_edges[i])]
    IN  [cost |-> score,
         nodes |-> query_nodes_payload
                   \o SelectSeq(target_nodes_payload, LAMBDA x : x.id \in match_ends),
         links |-> match_edges \o query_edges_payload
                   \o SelectSeq(target_edges_payload,
                                LAMBDA e : e.source \in match_ends /\ e.target \in match_ends)]

\* the value execute returns
Returned(n, hopping_distance, max_iters, packed, query_nodes, target_nodes, query_edges, target_edges) ==
    LET scores == get_scores(packed.inference_costs, query_nodes,
                             packed.subgraphs, packed.sz)
        sel == Selected(SortedIdxs(scores, packed.subgraphs), n)
    IN  [graphs |-> [p \in DOMAIN sel |->
                        NxtGraph(packed.subgraphs[sel[p]], scores[sel[p]],
                                 packed.inference_costs,
                                 query_nodes, target_nodes, query_edges, target_edges)],
         iters |-> packed.iters,
         hopping_distance |-> hopping_distance,
         max_iters |-> max_iters]

\* the precondition left out
NoMatchesUnchecked(query_id) == FALSE

\* the precondition of execute: if not len(self)
NoMatches(query_id) == MatchCount(query_id) = 0

\* a round cap one above the max_iters given
RoundCapPlusOne(max_iters) == max_iters + 1

\* the max_iters execute hands to _optimise
RoundCap(max_iters) == max_iters

\* A call with the data and the parameters of the call before it
Repeated(query_id, n, hopping_distance, max_iters) ==
    /\ result.kind = "ok"
    /\ result.query_id = query_id
    /\ result.n = n
    /\ result.hopping_distance = hopping_distance
    /\ result.max_iters = max_iters

ExecuteOk(query_id, n, hopping_distance, max_iters, outcome) ==
    LET query_nodes == query_nodes_of(query_id)
        target_nodes == target_nodes_of(query_id)
        query_edges == query_edges_of(query_id)
        packed == optimise(query_id, hopping_distance, RoundCap(max_iters), outcome)
        target_edges == target_edges_of(query_id, target_nodes, packed.target_edges_arr)
        ret == Returned(n, hopping_distance, max_iters, packed,
                        query_nodes, target_nodes, query_edges, target_edges)
        again == Repeated(query_id, n, hopping_distance, max_iters)
    IN  [kind |-> "ok", query_id |-> query_id, n |-> n,
         hopping_distance |-> hopping_distance, max_iters |-> max_iters,
         optimised |-> TRUE, outcome |-> outcome, packed |-> packed,
         scores |-> get_scores(packed.inference_costs, query_nodes,
                               packed.subgraphs, packed.sz),
         ret |-> ret,
         again |-> again,
         first |-> IF again THEN result.first ELSE ret]

\* The first call on the persisted data picks what the optimiser leaves open;
\* a repeated call meets the same optimiser on the same records.
Execute(query_id, n, hopping_distance, max_iters) ==
    /\ QueryExists(query_id)
    /\ IF NoMatches(query_id)
       THEN result' = [kind |-> "error", query_id |-> query_id,
                       error |-> "Cannot execute query with no matches",
                       optimised |-> FALSE]
       ELSE IF result.kind = "ok"
       THEN /\ Repeated(query_id, n, hopping_distance, max_iters)
            /\ ~result.again
            /\ result' = ExecuteOk(query_id, n, hopping_distance, max_iters,
                                   result.outcome)
       ELSE \E outcome \in Outcomes(Join(query_id, hopping_distance)) :
               result' = ExecuteOk(query_id, n, hopping_distance, max_iters, outcome)
    /\ UNCHANGED <<graphs, nodes, edges, queries, matches, call>>

Next ==
    \/ GraphCreate
    \/ QueryCreate(0, 1)
    \/ AddNodes(0, QueryIdSrc)
    \/ AddNodes(1, TargetIdSrc)
    \/ \E e \in QueryEdgeSrc : AddEdges(0, <<e>>)
    \/ \E e \in TargetEdgeSrc : AddEdges(1, <<e>>)
    \/ \E q \in QueryIds, p \in MatchPairs : AddMatches(q, << <<p[1], p[2], Scale>> >>)
    \/ \E q \in QueryIds, n \in NValues, h \in HopValues, mi \in IterCaps :
          Execute(q, n, h, mi)

Spec == Init /\ [][Next]_vars

(***************************************************************************)
(* QueryHandle.delete, and QueryHandle.execute one session at a time.      *)
(* execute opens a session (session_scope) for each of its reads:          *)
(* _check_exists, __len__ (_check_exists, then the count), _query_nodes,   *)
(* _target_nodes, _query_edges, _optimise and _target_edges; the calls of  *)
(* other clients commit between them.                                      *)
(***************************************************************************)
\* QueryHandle.delete: the query row and the matches of the query
QueryDelete(query_id) ==
    /\ QueryExists(query_id)
    /\ queries' = {q \in queries : q.query_id # query_id}
    /\ matches' = {m \in matches : m.query_id # query_id}
    /\ result' = NoResult
    /\ UNCHANGED <<graphs, nodes, edges, call>>

\* The selects join model.Query: they return no row once the query is deleted.
ReadQueryNodes(query_id) ==
    IF QueryExists(query_id) THEN query_nodes_of(query_id) ELSE <<>>
ReadTargetNodes(query_id) ==
    IF QueryExists(query_id) THEN target_nodes_of(query_id) ELSE <<>>
ReadQueryEdges(query_id) ==
    IF QueryExists(query_id) THEN query_edges_of(query_id) ELSE <<>>
ReadRecords(query_id, h) ==
    IF QueryExists(query_id) THEN Join(query_id, h) ELSE {}
ReadSz(query_id) ==
    IF QueryExists(query_id) THEN EligibleQueryNodes(query_id) ELSE 0
TargetEdgesArr(records) ==
    {[u |-> r.match_target_node, uu |-> r.neighbor_target_node,
      dist_u |-> r.path_distance] : r \in records}
ReadTargetEdges(query_id, target_nodes, records) ==
    IF QueryExists(query_id)
    THEN target_edges_of(query_id, target_nodes, TargetEdgesArr(records))
    ELSE <<>>

\* What execute reads when all its sessions see the persisted state as it is now
View(query_id, h) ==
    [exists |-> QueryExists(query_id),
     count |-> MatchCount(query_id),
     query_nodes |-> ReadQueryNodes(query_id),
     target_nodes |-> ReadTargetNodes(query_id),
     query_edges |-> ReadQueryEdges(query_id),
     records |-> ReadRecords(query_id, h),
     sz |-> ReadSz(query_id),
     target_edges |-> ReadTargetEdges(query_id, ReadTargetNodes(query_id),
                                      ReadRecords(query_id, h))]

\* the locals of a running execute call
NewCall(query_id, n, hopping_distance, max_iters) ==
    [pc |-> "check_exists", query_id |-> query_id, n |-> n,
     hopping_distance |-> hopping_distance, max_iters |-> max_iters,
     count |-> 0, query_nodes |-> <<>>, target_nodes |-> <<>>,
     query_edges |-> <<>>, records |-> {}, sz |-> 0, target_edges |-> <<>>,
     kind |-> "none", error |-> ""]

Raise(c, message) ==
    [c EXCEPT !.pc = "done", !.kind = "error", !.error = message]

\* execute is called: self._check_exists()
ExecuteStart(query_id, n, hopping_distance, max_iters) ==
    /\ call = Idle
    /\ LET c == NewCall(query_id, n, hopping_distance, max_iters)
       IN  call' = IF QueryExists(query_id)
                   THEN [c EXCEPT !.pc = "len_check_exists"]
                   ELSE Raise(c, "cannot read query")
    /\ UNCHANGED <<graphs, nodes, edges, queries, matches, result>>

\* len(self): self._check_exists()
ExecuteLenCheckExists ==
    /\ call.pc = "len_check_exists"
    /\ call' = IF QueryExists(call.query_id)
               THEN [call EXCEPT !.pc = "len"]
               ELSE Raise(call, "cannot read query")
    /\ UNCHANGED <<graphs, nodes, edges, queries, matches, result>>

\* len(self): the count; if not len(self): raise
ExecuteLen ==
    /\ call.pc = "len"
    /\ call' = IF NoMatches(call.query_id)
               THEN Raise(call, "Cannot execute query with no matches")
               ELSE [call EXCEPT !.pc = "query_nodes", !.count = MatchCount(call.query_id)]
    /\ UNCHANGED <<graphs, nodes, edges, queries, matches, result>>

ExecuteQueryNodes ==
    /\ call.pc = "query_nodes"
    /\ call' = [call EXCEPT !.pc = "target_nodes", !.query_nodes = ReadQueryNodes(call.query_id)]
    /\ UNCHANGED <<graphs, nodes, edges, queries, matches, result>>

ExecuteTargetNodes ==
    /\ call.pc = "target_nodes"
    /\ call' = [call EXCEPT !.pc = "query_edges", !.target_nodes = ReadTargetNodes(call.query_id)]
    /\ UNCHANGED <<graphs, nodes, edges, queries, matches, result>>

ExecuteQueryEdges ==
    /\ call.pc = "query_edges"
    /\ call' = [call EXCEPT !.pc = "optimise", !.query_edges = ReadQueryEdges(call.query_id)]
    /\ UNCHANGED <<graphs, nodes, edges, queries, matches, result>>

\* the session of the join writing the weights it has read back, lowered
ExecuteOptimiseStoring ==
    /\ call.pc = "optimise"
    /\ call' = [call EXCEPT !.pc = "target_edges",
                            !.records = ReadRecords(call.query_id, call.hopping_distance),
                            !.sz = ReadSz(call.query_id)]
    /\ matches' = {IF m.query_id = call.query_id THEN [m EXCEPT !.weight = 1] ELSE m :
                      m \in matches}
    /\ UNCHANGED <<graphs, nodes, edges, queries, result>>

\* _optimise: the session of the join
ExecuteOptimise ==
    /\ call.pc = "optimise"
    /\ call' = [call EXCEPT !.pc = "target_edges",
                            !.records = ReadRecords(call.query_id, call.hopping_distance),
                            !.sz = ReadSz(call.query_id)]
    /\ UNCHANGED <<graphs, nodes, edges, queries, matches, result>>

\* _target_edges; the ranking and the assembly that follow read no persisted
\* data: the call returns CallReturned(outcome) for the outcome the optimiser
\* reaches on the records it was given.
ExecuteTargetEdges ==
    /\ call.pc = "target_edges"
    /\ call' = [call EXCEPT !.pc = "done", !.kind = "ok",
                            !.target_edges = ReadTargetEdges(call.query_id,
                                                             call.target_nodes,
                                                             call.records)]
    /\ UNCHANGED <<graphs, nodes, edges, queries, matches, result>>

CallReturned(c, outcome) ==
    Returned(c.n, c.hopping_distance, c.max_iters,
             Solve(c.records, c.hopping_distance, RoundCap(c.max_iters), c.sz, outcome),
             c.query_nodes, c.target_nodes, c.query_edges, c.target_edges)

\* the caller has the value or the exception
ExecuteReturn ==
    /\ call.pc = "done"
    /\ call' = Idle
    /\ UNCHANGED <<graphs, nodes, edges, queries, matches, result>>

\* the calls of the other clients
Writers ==
    \/ GraphCreate
    \/ QueryCreate(0, 1)
    \/ AddNodes(0, QueryIdSrc)
    \/ AddNodes(1, TargetIdSrc)
    \/ \E e \in QueryEdgeSrc : AddEdges(0, <<e>>)
    \/ \E e \in TargetEdgeSrc : AddEdges(1, <<e>>)
    \/ \E q \in QueryIds, p \in MatchPairs : AddMatches(q, << <<p[1], p[2], Scale>> >>)
    \/ \E q \in QueryIds : QueryDelete(q)

NextSteps ==
    \/ call.pc # "done" /\ Writers
    \/ \E q \in QueryIds, n \in NValues, h \in HopValues, mi \in IterCaps :
          ExecuteStart(q, n, h, mi)
    \/ ExecuteLenCheckExists
    \/ ExecuteLen
    \/ ExecuteQueryNodes
    \/ ExecuteTargetNodes
    \/ ExecuteQueryEdges
    \/ ExecuteOptimise
    \/ ExecuteTargetEdges
    \/ ExecuteReturn

SpecSteps == Init /\ [][NextSteps]_vars

(***************************************************************************)
(* _hash as a function of its key, for keys of the three kinds the API     *)
(* hashes: an int (a node's id_src), a (node_id, node_type) pair and a     *)
(* tuple of (query_node, target_node) pairs.  A process has a hash seed    *)
(* (PYTHONHASHSEED), drawn anew when the interpreter starts.               *)
(***************************************************************************)
IntKeys == {-MAX_SIZE, -MAX_SIZE + 1, -33477, -2, -1, 0, 1, 2, 33477, 34441,
            MAX_SIZE - 1, MAX_SIZE}
NodeKeys == {<<0, "query">>, <<1, "query">>, <<2, "target">>, <<33477, "target">>, <<34441, "target">>}
TupleKeys == {<<<<0, 33477>>>>,
                  <<<<1, 34441>>>>,
                  <<<<0, 2>>>>,
                  <<<<0, 33477>>, <<1, 34441>>>>,
                  <<<<1, 34441>>, <<0, 33477>>>>,
                  <<<<1, 34441>>, <<0, 2>>>>,
                  <<<<0, 2>>, <<1, 34441>>>>}
Seeds == {0, 1}

IntKey(i) == [kind |-> "int", num |-> i, node |-> <<0, "">>, tuple |-> <<>>]
NodeKey(nd) == [kind |-> "node", num |-> 0, node |-> nd, tuple |-> <<>>]
TupleKey(t) == [kind |-> "tuple", num |-> 0, node |-> <<0, "">>, tuple |-> t]
HashKeys ==
    {IntKey(i) : i \in IntKeys} \cup {NodeKey(nd) : nd \in NodeKeys}
        \cup {TupleKey(t) : t \in TupleKeys}

\* hashlib.sha256(str(item).encode('utf-8')).hexdigest(), four hex digits to a
\* word, the most significant word first
Sha256(key) ==
    CASE key.kind = "node" /\ key.node = <<0, "query">> ->
            <<29752, 62200, 49220, 10599, 36279, 60335, 35010, 57347, 44966, 15933, 11538, 25816, 34537, 2645, 17233, 30282>>
      [] key.kind = "node" /\ key.node = <<1, "query">> ->
            <<1784, 46593, 28112, 35941, 35203, 60418, 40550, 34011, 16313, 47001, 65070, 20552, 4827, 1927, 11104, 49258>>
      [] key.kind = "node" /\ key.node = <<2, "target">> ->
            <<20595, 28886, 42082, 57680, 7550, 8276, 35795, 40828, 29299, 57597, 29454, 15556, 30120, 61253, 5376, 63116>>
      [] key.kind = "node" /\ key.node = <<33477, "target">> ->
            <<58479, 17205, 29167, 22772, 30629, 16561, 34815, 59303, 20347, 54316, 22122, 17491, 61047, 56256, 14678, 7484>>
      [] key.kind = "node" /\ key.node = <<34441, "target">> ->
            <<10838, 1810, 51495, 22746, 443, 58402, 11073, 64941, 36793, 26881, 33080, 39123, 38470, 1454, 33852, 6891>>
      [] key.kind = "tuple" /\ key.tuple = <<<<0, 33477>>>> ->
            <<10818, 12602, 48729, 52316, 21606, 9653, 43413, 34008, 27298, 46546, 28801, 58595, 10733, 23484, 24987, 27026>>
      [] key.kind = "tuple" /\ key.tuple = <<<<1, 34441>>>> ->
            <<28254, 4113, 35437, 28723, 2879, 65275, 24889, 22978, 2108, 24745, 16695, 25551, 11624, 59997, 26589, 62420>>
      [] key.kind = "tuple" /\ key.tuple = <<<<0, 2>>>> ->
            <<26007, 14684, 59629, 32060, 54791, 11328, 65470, 33672, 60151, 62097, 33042, 20667, 40930, 49791, 46140, 19859>>
      [] key.kind = "tuple" /\ key.tuple = <<<<0, 33477>>, <<1, 34441>>>> ->
            <<3254, 23346, 45208, 32489, 45759, 20029, 41656, 61042, 45576, 62335, 49144, 8390, 19771, 65533, 51003, 60782>>
      [] key.kind = "tuple" /\ key.tuple = <<<<1, 34441>>, <<0, 33477>>>> ->
            <<63016, 42565, 25053, 24007, 49900, 32575, 13816, 14717, 21128, 6913, 12105, 50504, 51893, 40363, 52527, 62782>>
      [] key.kind = "tuple" /\ key.tuple = <<<<1, 34441>>, <<0, 2>>>> ->
            <<25071, 20242, 17396, 47287, 51576, 59532, 38997, 18684, 58977, 5906, 62108, 55934, 36790, 38145, 10865, 65099>>
      [] key.kind = "tuple" /\ key.tuple = <<<<0, 2>>, <<1, 34441>>>> ->
            <<60523, 62717, 16254, 13553, 41520, 6088, 690, 47648, 25423, 54951, 17833, 37762, 53066, 16695, 24224, 15804>>

\* (x * 65536) % MAX_SIZE for 0 <= x < MAX_SIZE: as MAX_SIZE = 2^31 - 1,
\* x * 2^16 = (x div 2^15) * 2^31 + (x mod 2^15) * 2^16 is congruent to
\* (x div 2^15) + (x mod 2^15) * 2^16, which is at most MAX_SIZE
ShiftWord(x) == ((x \div 32768) + (x % 32768) * 65536) % MAX_SIZE

\* (x + w) % MAX_SIZE for 0 <= x < MAX_SIZE and 0 <= w < 65536
AddWord(x, w) == IF x >= MAX_SIZE - w THEN x - (MAX_SIZE - w) ELSE x + w

\* int(hexdigest, 16) % MAX_SIZE, word by word
RECURSIVE DigestMod(_, _)
DigestMod(digest, acc) ==
    IF digest = <<>> THEN acc
    ELSE DigestMod(Tail(digest), AddWord(ShiftWord(acc), Head(digest)))

\* _hash(item)
Hash(key) ==
    IF key.kind = "int" THEN HashInt(key.num) ELSE DigestMod(Sha256(key), 0)

\* a process starts: the interpreter draws its hash seed
ProcessStart(seed) ==
    /\ call.pc \in {"idle", "hash"}
    /\ call' = IF call.pc = "idle"
               THEN [pc |-> "hash", seed |-> seed, calls |-> 0,
                     key |-> IntKey(0), value |-> 0,
                     kept |-> [calls |-> 0, seed |-> seed, key |-> IntKey(0), value |-> 0]]
               ELSE [call EXCEPT !.seed = seed]
    /\ call'.seed # (IF call.pc = "idle" THEN -1 ELSE call.seed)
    /\ UNCHANGED <<graphs, nodes, edges, queries, matches, result>>

\* _hash(key) is called; calls: that a call has been made in this run.  The
\* call before it may be kept to compare a later call with.
HashCall(key, keep) ==
    /\ call.pc = "hash"
    /\ call' = [call EXCEPT !.calls = 1, !.key = key, !.value = Hash(key),
                            !.kept = IF keep /\ call.calls = 1
                                     THEN [calls |-> 1, seed |-> call.seed,
                                           key |-> call.key, value |-> call.value]
                                     ELSE call.kept]
    /\ UNCHANGED <<graphs, nodes, edges, queries, matches, result>>

NextHash ==
    \/ \E seed \in Seeds : ProcessStart(seed)
    \/ \E key \in HashKeys, keep \in BOOLEAN : HashCall(key, keep)

SpecHash == Init /\ [][NextHash]_vars

(***************************************************************************)
(* QueryHandle.add_matches with the weights a caller can pass: check_matches*)
(* is a generator that session.add_all consumes inside session_scope, so a *)
(* match that fails the check raises after the matches before it have been *)
(* added to the session.                                                   *)
(***************************************************************************)
\* the weights passed, in units of 1/Scale: -1/Scale .. 1 + 1/Scale
Weights == (-1)..(Scale + 1)

ValidMatch(mt) == 0 < mt[3] /\ mt[3] <= Scale

\* the matches check_matches yields before it raises or is exhausted
RECURSIVE Yielded(_)
Yielded(batch) ==
    IF batch = <<>> \/ ~ValidMatch(Head(batch)) THEN <<>>
    ELSE <<Head(batch)>> \o Yielded(Tail(batch))

\* a session that commits what was added although the block raised
SessionScopeNoRollback(added, raised) == added

\* session_scope: what the session persists of the rows added to it: all of
\* them on commit, none after the rollback that follows an exception
SessionScope(added, raised) == IF raised THEN {} ELSE added

AddMatchesCall(query_id, batch) ==
    /\ call.pc \in {"idle", "add_matches"}
    /\ QueryExists(query_id)
    /\ batch # <<>>
    /\ \A m \in NewMatches(query_id, batch) :
          /\ [graph_id |-> QueryRow(query_id).start_graph_id, node_id |-> m.start] \in nodes
          /\ [graph_id |-> QueryRow(query_id).end_graph_id, node_id |-> m.end] \in nodes
    /\ Cardinality(MatchKeys(NewMatches(query_id, batch))) = Len(batch)
    /\ MatchKeys(NewMatches(query_id, batch)) \cap MatchKeys(matches) = {}
    /\ Cardinality(matches) + Len(batch) <= MaxMatches
    /\ matches' = matches \cup SessionScope(NewMatches(query_id, Yielded(batch)),
                                            ~check_matches(batch))
    /\ call' = [pc |-> "add_matches", raised |-> ~check_matches(batch),
                yielded |-> Len(Yielded(batch))]
    /\ result' = NoResult
    /\ UNCHANGED <<graphs, nodes, edges, queries>>

MatchBatches ==
    UNION {[1..len -> {<<p[1], p[2], w>> : p \in MatchPairs, w \in Weights}] :
              len \in 1..2}

NextMatches ==
    \/ GraphCreate
    \/ QueryCreate(0, 1)
    \/ AddNodes(0, QueryIdSrc)
    \/ AddNodes(1, TargetIdSrc)
    \/ \E e \in QueryEdgeSrc : AddEdges(0, <<e>>)
    \/ \E e \in TargetEdgeSrc : AddEdges(1, <<e>>)
    \/ \E q \in QueryIds, batch \in MatchBatches : AddMatchesCall(q, batch)

SpecMatches == Init /\ [][NextMatches]_vars

(***************************************************************************)
(* GraphHandle.add_edges with the sources and targets a caller can pass:   *)
(* the edges in both directions go through the generator check_edges into  *)
(* session.add_all inside session_scope.                                   *)
(***************************************************************************)
\* the stored edges of a graph between a and b, in either direction
Between(graph_id, a, b) ==
    {e \in edges : e.graph_id = graph_id /\ {e.start, e.end} = {a, b}}

\* id_src of either end of an edge passed for graph 0 and for graph 1;
\* _hash(MAX_SIZE) = _hash(0)
EdgeEndSrc(graph_id) == IF graph_id = 0 THEN QueryIdSrc \cup {MAX_SIZE} ELSE TargetIdSrc

EdgeBatches(graph_id) ==
    UNION {[1..len -> EdgeEndSrc(graph_id) \X EdgeEndSrc(graph_id)] : len \in 1..2}

\* check_edges raises at the first edge whose (hashed) start and end are equal
ValidEdge(pair) == HashInt(pair[1]) # HashInt(pair[2])

\* the pairs whose two edges check_edges yields before it raises
RECURSIVE YieldedEdges(_)
YieldedEdges(pairs) ==
    IF pairs = <<>> \/ ~ValidEdge(Head(pairs)) THEN <<>>
    ELSE <<Head(pairs)>> \o YieldedEdges(Tail(pairs))

\* the edge table holds one row per (graph_id, start, end): the insert
\* succeeds when no two rows of the call, and no row of the call and stored
\* row, have the same key
EdgeKeysNew(graph_id, pairs) ==
    /\ \A i, j \in DOMAIN pairs :
          i # j => {HashInt(pairs[i][1]), HashInt(pairs[i][2])}
                      # {HashInt(pairs[j][1]), HashInt(pairs[j][2])}
    /\ \A i \in DOMAIN pairs : Between(graph_id, HashInt(pairs[i][1]), HashInt(pairs[i][2])) = {}

AddEdgesCall(graph_id, pairs) ==
    LET raised == \E i \in DOMAIN pairs : ~ValidEdge(pairs[i])
        added == NewEdges(graph_id, YieldedEdges(pairs))
    IN  /\ call.pc \in {"idle", "add_edges"}
        /\ graph_id \in graphs
        /\ pairs # <<>>
        /\ ~raised =>
              /\ \A e \in added :
                    /\ [graph_id |-> graph_id, node_id |-> e.start] \in nodes
                    /\ [graph_id |-> graph_id, node_id |-> e.end] \in nodes
              /\ EdgeKeysNew(graph_id, pairs)
        /\ edges' = edges \cup SessionScope(added, raised)
        /\ call' = [pc |-> "add_edges", raised |-> raised,
                    yielded |-> Len(YieldedEdges(pairs))]
        /\ result' = NoResult
        /\ UNCHANGED <<graphs, nodes, queries, matches>>

NextEdges ==
    \/ GraphCreate
    \/ QueryCreate(0, 1)
    \/ QueryCreate(1, 0)
    \/ AddNodes(0, QueryIdSrc)
    \/ AddNodes(1, TargetIdSrc)
    \/ \E g \in GraphIds : \E pairs \in EdgeBatches(g) : AddEdgesCall(g, pairs)

SpecEdges == Init /\ [][NextEdges]_vars

(***************************************************************************)
(* A query graph of three nodes, of which the matches reach two            *)
(* (spec.md 8, scenario B).                                                *)
(***************************************************************************)
ThreeQueryIdSrc == QueryIdSrc \cup {3}

NextThree ==
    \/ GraphCreate
    \/ QueryCreate(0, 1)
    \/ AddNodes(0, ThreeQueryIdSrc)
    \/ AddNodes(1, TargetIdSrc)
    \/ \E e \in QueryEdgeSrc \cup {<<1, 3>>} : AddEdges(0, <<e>>)
    \/ \E e \in TargetEdgeSrc : AddEdges(1, <<e>>)
    \/ \E q \in QueryIds, p \in MatchPairs : AddMatches(q, << <<p[1], p[2], Scale>> >>)
    \/ \E q \in QueryIds, n \in NValues : Execute(q, n, 1, 1)

SpecThree == Init /\ [][NextThree]_vars

(***************************************************************************)
(* The calls a client makes through a QueryHandle, on a query that exists  *)
(* and on one that was deleted after the handle was made.  Each call is    *)
(* recorded with what it raised or returned.                               *)
(***************************************************************************)
\* the ids of the queries deleted through a handle so far
DeletedOf(c) == IF c.pc = "handle" THEN c.deleted ELSE {}

\* the number of match rows the last delete through a handle removed
PurgedOf(c) == IF c.pc = "handle" THEN c.purged ELSE 0

\* QueryHandle.__init__ raises for an id that is not stored: a handle holds
\* the id of a query that exists or existed
HasHandle(query_id) == QueryExists(query_id) \/ query_id \in DeletedOf(call)

\* _check_exists left out
QueryCheckExistsSkipped(query_id) == TRUE

\* QueryHandle._check_exists: passes when the query row is stored
QueryCheckExists(query_id) == QueryExists(query_id)

HandleRaised(op, query_id, message) ==
    [pc |-> "handle", op |-> op, query_id |-> query_id, kind |-> "error",
     raises |-> "ValueError", error |-> message, value |-> 0,
     deleted |-> DeletedOf(call), purged |-> PurgedOf(call)]

HandleReturned(op, query_id, value, deleted, purged) ==
    [pc |-> "handle", op |-> op, query_id |-> query_id, kind |-> "ok",
     raises |-> "", error |-> "", value |-> value, deleted |-> deleted,
     purged |-> purged]

NotExists(op, query_id) == HandleRaised(op, query_id, "cannot read query with query id")

\* QueryHandle.__len__
HandleLen(query_id) ==
    /\ HasHandle(query_id)
    /\ call' = IF ~QueryCheckExists(query_id) THEN NotExists("__len__", query_id)
               ELSE HandleReturned("__len__", query_id, MatchCount(query_id),
                                   DeletedOf(call), PurgedOf(call))
    /\ result' = NoResult
    /\ UNCHANGED <<graphs, nodes, edges, queries, matches>>

\* QueryHandle.execute, by what it raises; the value it returns is that of
\* Execute
HandleExecute(query_id) ==
    /\ HasHandle(query_id)
    /\ call' = IF ~QueryCheckExists(query_id) THEN NotExists("execute", query_id)
               ELSE IF NoMatches(query_id)
               THEN HandleRaised("execute", query_id,
                                 "Cannot execute query with no matches")
               ELSE HandleReturned("execute", query_id, 0, DeletedOf(call),
                                   PurgedOf(call))
    /\ result' = NoResult
    /\ UNCHANGED <<graphs, nodes, edges, queries, matches>>

\* QueryHandle.add_matches with valid matches between stored nodes
HandleAddMatches(query_id, batch) ==
    /\ HasHandle(query_id)
    /\ batch # <<>>
    /\ check_matches(batch)
    /\ IF ~QueryCheckExists(query_id)
       THEN /\ call' = NotExists("add_matches", query_id)
            /\ UNCHANGED matches
       ELSE /\ \E q \in queries :
                  /\ q.query_id = query_id
                  /\ \A m \in NewMatches(query_id, batch) :
                        /\ [graph_id |-> q.start_graph_id, node_id |-> m.start] \in nodes
                        /\ [graph_id |-> q.end_graph_id, node_id |-> m.end] \in nodes
            /\ MatchKeys(NewMatches(query_id, batch)) \cap MatchKeys(matches) = {}
            /\ Cardinality(matches) + Len(batch) <= MaxMatches
            /\ matches' = matches \cup NewMatches(query_id, batch)
            /\ call' = HandleReturned("add_matches", query_id, 0, DeletedOf(call),
                                        PurgedOf(call))
    /\ result' = NoResult
    /\ UNCHANGED <<graphs, nodes, edges, queries>>

\* QueryHandle.query_graph and QueryHandle.target_graph: the graph_id of the
\* handle returned
HandleGraph(op, query_id) ==
    LET rows == {q \in queries : q.query_id = query_id}
        ids == {IF op = "query_graph" THEN q.start_graph_id ELSE q.end_graph_id :
                   q \in rows}
    IN  /\ HasHandle(query_id)
        /\ ~QueryCheckExists(query_id) \/ rows # {}
        /\ call' = IF ~QueryCheckExists(query_id) THEN NotExists(op, query_id)
                   ELSE HandleReturned(op, query_id, SetMax(ids), DeletedOf(call),
                                       PurgedOf(call))
        /\ result' = NoResult
        /\ UNCHANGED <<graphs, nodes, edges, queries, matches>>

\* QueryHandle.delete
HandleDelete(query_id) ==
    /\ HasHandle(query_id)
    /\ IF ~QueryCheckExists(query_id)
       THEN /\ call' = NotExists("delete", query_id)
            /\ UNCHANGED <<queries, matches>>
       ELSE /\ queries' = {q \in queries : q.query_id # query_id}
            /\ matches' = {m \in matches : m.query_id # query_id}
            /\ call' = HandleReturned("delete", query_id, 0,
                                      DeletedOf(call) \cup {query_id},
                                      MatchCount(query_id))
    /\ result' = NoResult
    /\ UNCHANGED <<graphs, nodes, edges>>

NextHandles ==
    \/ GraphCreate
    \/ QueryCreate(0, 1)
    \/ AddNodes(0, QueryIdSrc)
    \/ AddNodes(1, TargetIdSrc)
    \/ \E q \in QueryIds : HandleLen(q)
    \/ \E q \in QueryIds : HandleExecute(q)
    \/ \E q \in QueryIds, p \in MatchPairs :
          HandleAddMatches(q, << <<p[1], p[2], Scale>> >>)
    \/ \E q \in QueryIds, op \in {"query_graph", "target_graph"} : HandleGraph(op, q)
    \/ \E q \in QueryIds : HandleDelete(q)

SpecHandles == Init /\ [][NextHandles]_vars

(***************************************************************************)
(* GraphHandle.create and QueryHandle.create in their two statements, the  *)
(* select of the maximum id and the insert, with the calls of other        *)
(* clients committing in between; GraphHandle.delete.                      *)
(***************************************************************************)
\* GraphHandle.delete: the graph row, its edges and its nodes.  A graph that
\* a query refers to is left out.
GraphDelete(graph_id) ==
    /\ graph_id \in graphs
    /\ \A q \in queries : q.start_graph_id # graph_id /\ q.end_graph_id # graph_id
    /\ graphs' = graphs \ {graph_id}
    /\ edges' = {e \in edges : e.graph_id # graph_id}
    /\ nodes' = {x \in nodes : x.graph_id # graph_id}
    /\ result' = NoResult
    /\ UNCHANGED <<queries, matches, call>>

\* the call has selected max(id) and holds the id it will insert
Creating(table, id, query_graph, target_graph) ==
    [pc |-> "insert", table |-> table, id |-> id,
     query_graph |-> query_graph, target_graph |-> target_graph]

\* the call is over: it returned a handle with the id, or the insert raised;
\* taken says whether a row with the id was stored when the insert ran
Created(c, kind, taken) ==
    [pc |-> "created", table |-> c.table, id |-> c.id, kind |-> kind, taken |-> taken]

\* session.query(func.max(Graph.graph_id)).first()
GraphCreateSelect ==
    /\ call.pc \in {"idle", "created"}
    /\ NextGraphId \in GraphIds
    /\ call' = Creating("graph", NextGraphId, 0, 0)
    /\ result' = NoResult
    /\ UNCHANGED <<graphs, nodes, edges, queries, matches>>

\* session.add(Graph(graph_id)), commit: a row with the id that another
\* create has stored since the select fails the insert
GraphCreateInsert ==
    /\ call.pc = "insert"
    /\ call.table = "graph"
    /\ IF call.id \in graphs
       THEN /\ call' = Created(call, "IntegrityError", TRUE)
            /\ UNCHANGED graphs
       ELSE /\ graphs' = graphs \cup {call.id}
            /\ call' = Created(call, "ok", FALSE)
    /\ result' = NoResult
    /\ UNCHANGED <<nodes, edges, queries, matches>>

\* session.query(func.max(Query.query_id)).first()
QueryCreateSelect(query_graph, target_graph) ==
    /\ call.pc \in {"idle", "created"}
    /\ query_graph \in graphs
    /\ target_graph \in graphs
    /\ NextQueryId \in QueryIds
    /\ call' = Creating("query", NextQueryId, query_graph, target_graph)
    /\ result' = NoResult
    /\ UNCHANGED <<graphs, nodes, edges, queries, matches>>

\* session.add(Query(query_id, start_graph_id, end_graph_id)), commit
QueryCreateInsert ==
    /\ call.pc = "insert"
    /\ call.table = "query"
    /\ call.query_graph \in graphs
    /\ call.target_graph \in graphs
    /\ IF QueryExists(call.id)
       THEN /\ call' = Created(call, "IntegrityError", TRUE)
            /\ UNCHANGED queries
       ELSE /\ queries' = queries \cup {[query_id |-> call.id,
                                         start_graph_id |-> call.query_graph,
                                         end_graph_id |-> call.target_graph]}
            /\ call' = Created(call, "ok", FALSE)
    /\ result' = NoResult
    /\ UNCHANGED <<graphs, nodes, edges, matches>>

NextCreate ==
    \/ GraphCreate
    \/ \E g \in GraphIds : GraphDelete(g)
    \/ QueryCreate(0, 1)
    \/ \E q \in QueryIds : QueryDelete(q)
    \/ AddNodes(0, QueryIdSrc)
    \/ AddNodes(1, TargetIdSrc)
    \/ \E e \in QueryEdgeSrc : AddEdges(0, <<e>>)
    \/ GraphCreateSelect
    \/ GraphCreateInsert
    \/ QueryCreateSelect(0, 1)
    \/ QueryCreateInsert

SpecCreate == Init /\ [][NextCreate]_vars

(***************************************************************************)
(* Reading a result: the subgraphs the optimiser extracted, the graphs     *)
(* returned, and which subgraph a returned graph presents.                 *)
(***************************************************************************)
Ok == result.kind = "ok"
Extracted == result.packed.subgraphs
Graphs == result.ret.graphs
Costs == result.packed.inference_costs
Min2(a, b) == IF a < b THEN a ELSE b

MatchLinks(graph) == SelectSeq(graph.links, LAMBDA l : l.type = "match")
QueryLinks(graph) == SelectSeq(graph.links, LAMBDA l : l.type = "query")
TargetLinks(graph) == SelectSeq(graph.links, LAMBDA l : l.type = "target")

\* the query nodes, the target nodes and the undirected edges persisted for
\* the query of the result
PersistedQueryNodes == GraphNodeIds(QueryRow(result.query_id).start_graph_id)
PersistedTargetNodes == GraphNodeIds(QueryRow(result.query_id).end_graph_id)
PersistedEdges(graph_id) ==
    {<<e.start, e.end>> : e \in {x \in edges : x.graph_id = graph_id /\ x.start < x.end}}

QueryEnds(subgraph) == {subgraph[i][1] : i \in DOMAIN subgraph}
TargetEnds(subgraph) == {subgraph[i][2] : i \in DOMAIN subgraph}

\* the returned graph presents subgraph i: its cost is the score of i and its
\* match edges join the presentation ids of the pairs of i
Presents(graph, i) ==
    /\ graph.cost = result.scores[i]
    /\ {<<l.source, l.target>> : l \in Range(MatchLinks(graph))}
          = {<<HashNode(pr[1], "query"), HashNode(pr[2], "target")>> :
                pr \in Range(Extracted[i])}

\* subgraph j ranks strictly before subgraph i: by score, then by tie-break hash
RanksBefore(j, i) ==
    \/ ScoreLess(result.scores[j], result.scores[i])
    \/ /\ ScoreEq(result.scores[j], result.scores[i])
       /\ HashTuple(Extracted[j]) < HashTuple(Extracted[i])

RankOf(i) == 1 + Cardinality({j \in DOMAIN Extracted : RanksBefore(j, i)})

\* C1: execute on a query that has no match raises 'Cannot execute query with
\* no matches' before the join and the optimiser are invoked, and returns no
\* result.
C1_NoMatchesRaises ==
    (result.kind # "none" /\ MatchCount(result.query_id) = 0)
        => /\ result.kind = "error"
           /\ result.error = "Cannot execute query with no matches"
           /\ ~result.optimised

C1_Witness ==
    /\ result.kind = "error"
    /\ MatchCount(result.query_id) = 0
    /\ PersistedQueryNodes # {}

\* C2: with n >= 1 and at least one match, execute returns at least 1 and at
\* most min(n, k) graphs, k the number of extracted subgraphs, and they are the
\* first min(n, k) subgraphs in rank order.
C2_TopN ==
    Ok => /\ MatchCount(result.query_id) >= 1
          /\ Len(Graphs) >= 1
          /\ Len(Graphs) <= Min2(result.n, Len(Extracted))
          /\ \A i \in DOMAIN Extracted :
                RankOf(i) <= Min2(result.n, Len(Extracted))
                    => /\ RankOf(i) \in DOMAIN Graphs
                       /\ Presents(Graphs[RankOf(i)], i)

C2_Witness ==
    /\ Ok
    /\ Len(Extracted) = 2
    /\ result.n = 1
    /\ Len(Graphs) = 1
    /\ ~ScoreEq(result.scores[1], result.scores[2])
    /\ ScoreLess(result.scores[2], result.scores[1])

\* C3: the returned graphs are in ascending order of (score, tie-break hash of
\* the subgraph's sequence of pairs), and no subgraph left out ranks strictly
\* before a returned one; subgraphs of equal score are ordered by the hash.
C3_RankOrder ==
    Ok => \E f \in [DOMAIN Graphs -> DOMAIN Extracted] :
             /\ \A p, q \in DOMAIN Graphs : p # q => f[p] # f[q]
             /\ \A p \in DOMAIN Graphs : Presents(Graphs[p], f[p])
             /\ \A p, q \in DOMAIN Graphs :
                   p < q => \/ ScoreLess(result.scores[f[p]], result.scores[f[q]])
                            \/ /\ ScoreEq(result.scores[f[p]], result.scores[f[q]])
                               /\ HashTuple(Extracted[f[p]]) <= HashTuple(Extracted[f[q]])
             /\ \A j \in DOMAIN Extracted, p \in DOMAIN Graphs :
                   j \notin Range(f) => ~RanksBefore(j, f[p])

\* two subgraphs of equal score, returned in the order of their hashes, which
\* is not the order the optimiser gave them in
C3_Witness ==
    /\ Ok
    /\ Len(Extracted) = 2
    /\ Len(Graphs) = 2
    /\ ScoreEq(result.scores[1], result.scores[2])
    /\ HashTuple(Extracted[2]) < HashTuple(Extracted[1])
    /\ Presents(Graphs[1], 2)
    /\ Presents(Graphs[2], 1)

\* the sum of the costs of a set of pairs
RECURSIVE CostSum(_)
CostSum(pairs) ==
    IF pairs = {} THEN 0
    ELSE LET pr == CHOOSE x \in pairs : TRUE
         IN  Costs[pr] + CostSum(pairs \ {pr})

\* C4: _get_scores gives every subgraph S the score
\* (sum of the costs of its pairs + (sz - |S|)) / (number of query nodes).
\* With costs in units of 1/Scale: score = (sum + Scale * (sz - |S|)) / (Scale * nq).
C4_Score ==
    Ok => \A i \in DOMAIN Extracted :
             result.scores[i].num * (Scale * Cardinality(PersistedQueryNodes))
                = (CostSum(Range(Extracted[i]))
                     + Scale * (result.packed.sz - Len(Extracted[i])))
                  * result.scores[i].den

\* a subgraph with a pair of cost above 0 and an unmatched query node
C4_Witness ==
    /\ Ok
    /\ \E i \in DOMAIN Extracted :
          /\ CostSum(Range(Extracted[i])) > 0
          /\ result.packed.sz - Len(Extracted[i]) = 1
          /\ result.scores[i].den > 0

\* C5: every match edge returned has the weight 1 - inference_cost of its pair,
\* within [0, 1], and every inference cost is non-negative and finite (weights
\* and costs in units of 1/Scale).
C5_MatchWeights ==
    Ok => /\ \A pr \in DOMAIN Costs : 0 <= Costs[pr] /\ Costs[pr] <= Scale
          /\ \A p \in DOMAIN Graphs :
                \E i \in DOMAIN Extracted :
                   /\ Presents(Graphs[p], i)
                   /\ Len(MatchLinks(Graphs[p])) = Len(Extracted[i])
                   /\ \A x \in DOMAIN MatchLinks(Graphs[p]) :
                         LET l == MatchLinks(Graphs[p])[x]
                             pr == SortedPairs(Range(Extracted[i]))[x]
                         IN  /\ l.weight = Scale - Costs[pr]
                             /\ 0 <= l.weight
                             /\ l.weight <= Scale

\* a returned graph with two match edges of different weights, one of them
\* strictly between 0 and 1
C5_Witness ==
    /\ Ok
    /\ \E p \in DOMAIN Graphs :
          /\ Len(MatchLinks(Graphs[p])) = 2
          /\ MatchLinks(Graphs[p])[1].weight # MatchLinks(Graphs[p])[2].weight
          /\ 0 < MatchLinks(Graphs[p])[1].weight
          /\ MatchLinks(Graphs[p])[1].weight < Scale

\* C6: within a returned graph no query node is the source of more than one
\* match edge and no target node is the target of more than one match edge.
C6_InjectiveLinks ==
    Ok => \A p \in DOMAIN Graphs :
             \A x, y \in DOMAIN MatchLinks(Graphs[p]) :
                x # y => /\ MatchLinks(Graphs[p])[x].source # MatchLinks(Graphs[p])[y].source
                         /\ MatchLinks(Graphs[p])[x].target # MatchLinks(Graphs[p])[y].target

\* C7: the nodes of a returned graph are every query node of the query graph
\* and exactly the target nodes that are matched in the graph's subgraph.
C7_Nodes ==
    Ok => \A p \in DOMAIN Graphs :
             \E i \in DOMAIN Extracted :
                /\ Presents(Graphs[p], i)
                /\ {x.id_src : x \in {y \in Range(Graphs[p].nodes) : y.type = "query"}}
                      = PersistedQueryNodes
                /\ {x.id_src : x \in {y \in Range(Graphs[p].nodes) : y.type = "target"}}
                      = TargetEnds(Extracted[i])
                /\ Len(Graphs[p].nodes)
                      = Cardinality(PersistedQueryNodes) + Len(Extracted[i])

\* C8: the links of a returned graph are one match edge per pair of the
\* subgraph, every query edge of the query graph, and of the target edges only
\* those whose two endpoints are target nodes matched in the subgraph.
C8_Links ==
    Ok => \A p \in DOMAIN Graphs :
             \E i \in DOMAIN Extracted :
                /\ Presents(Graphs[p], i)
                /\ Len(MatchLinks(Graphs[p])) = Len(Extracted[i])
                /\ Len(QueryLinks(Graphs[p]))
                      = Cardinality(PersistedEdges(QueryRow(result.query_id).start_graph_id))
                /\ {<<l.source, l.target>> : l \in Range(QueryLinks(Graphs[p]))}
                      = {<<HashNode(e[1], "query"), HashNode(e[2], "query")>> :
                            e \in PersistedEdges(QueryRow(result.query_id).start_graph_id)}
                /\ Len(Graphs[p].links)
                      = Len(MatchLinks(Graphs[p])) + Len(QueryLinks(Graphs[p]))
                        + Len(TargetLinks(Graphs[p]))
                /\ Len(TargetLinks(Graphs[p]))
                      <= Cardinality({e \in PersistedEdges(QueryRow(result.query_id).end_graph_id) :
                                        /\ e[1] \in TargetEnds(Extracted[i])
                                        /\ e[2] \in TargetEnds(Extracted[i])})

\* C9: iters is the number of rounds the optimiser ran, iters <= max_iters: the
\* run stops at the first round at which the cap is reached or the costs have
\* converged, and a run that reaches the cap without converging returns a
\* normal result.
C9_Iters ==
    /\ Ok => /\ result.ret.iters = result.packed.iters
             /\ result.ret.max_iters = result.max_iters
             /\ result.ret.iters <= result.max_iters
             /\ result.ret.iters = Min2(result.outcome.converged_at, result.max_iters)
             /\ Len(Graphs) >= 1
    /\ result.kind = "error" => MatchCount(result.query_id) = 0

\* the cap reached before the costs converge
C9_Witness ==
    /\ Ok
    /\ result.outcome.converged_at > result.max_iters
    /\ result.ret.iters = result.ret.max_iters
    /\ Len(Graphs) >= 1

NodeIds(node_seq) == {node_seq[i].id : i \in DOMAIN node_seq}

C16_OneState ==
    (call.pc = "done" /\ call.kind = "ok") =>
        /\ call.count > 0
        /\ call.records # {}
        /\ \A r \in call.records :
              /\ r.match_query_node \in NodeIds(call.query_nodes)
              /\ r.match_target_node \in NodeIds(call.target_nodes)
        /\ call.sz = Len(call.query_nodes)
        /\ \A i \in DOMAIN call.query_edges :
              /\ call.query_edges[i].start \in NodeIds(call.query_nodes)
              /\ call.query_edges[i].end \in NodeIds(call.query_nodes)
        /\ \A i \in DOMAIN call.target_edges :
              /\ call.target_edges[i].start \in NodeIds(call.target_nodes)
              /\ call.target_edges[i].end \in NodeIds(call.target_nodes)

(***************************************************************************)
(* Claims about _hash (SpecHash).                                          *)
(***************************************************************************)
\* C12: _hash returns an integer h with 0 <= h < MAX_SIZE for every key; for an
\* int key, negative ones included, h is the key modulo MAX_SIZE (key - h is a
\* multiple of MAX_SIZE); for a pair or a tuple it is the sha256 digest of its
\* display string modulo MAX_SIZE, the value the node and tie-break hashes of
\* execute use; and a key hashed before, in this process or in one with
\* another seed, hashes to the value it had.
C12_Hash ==
    (call.pc = "hash" /\ call.calls = 1) =>
        /\ 0 <= call.value
        /\ call.value < MAX_SIZE
        /\ call.key.kind = "int" =>
              call.key.num - call.value \in {-MAX_SIZE, 0, MAX_SIZE}
        /\ call.key.kind = "node" =>
              call.value = HashNode(call.key.node[1], call.key.node[2])
        /\ call.key.kind = "tuple" => call.value = HashTuple(call.key.tuple)
        /\ (call.kept.calls = 1 /\ call.kept.key = call.key) =>
              call.value = call.kept.value

\* a negative int key, hashed to a value above 0, that was hashed before in a
\* process with another seed
C12_Witness ==
    /\ call.pc = "hash"
    /\ call.calls = 1
    /\ call.key.kind = "int"
    /\ call.key.num < 0
    /\ call.value > 0
    /\ call.kept.calls = 1
    /\ call.kept.key = call.key
    /\ call.kept.seed # call.seed

(***************************************************************************)
(* Claims about add_matches (SpecMatches).                                 *)
(***************************************************************************)
\* C13: an add_matches call that holds a match with a weight outside (0, 1]
\* raises and persists none of its matches, the valid ones before the invalid
\* one included; so every persisted match, and every candidate record execute
\* would read, has a weight w with 0 < w <= 1 (Scale in units of 1/Scale).
C13_ValidWeights ==
    [][/\ (call'.pc = "add_matches" /\ call'.raised) => matches' = matches
       /\ \A m \in matches' : 0 < m.weight /\ m.weight <= Scale
       /\ \A q \in QueryIds, h \in HopValues :
             QueryExists(q)' =>
                \A r \in Join(q, h)' : 0 < r.match_weight /\ r.match_weight <= Scale]_vars

\* a call has raised at its second match, after a valid first one, and no
\* match is persisted
C13_Witness ==
    /\ call.pc = "add_matches"
    /\ call.raised
    /\ call.yielded = 1
    /\ matches = {}

MatchedQueryNodes == {m.start : m \in {x \in matches : x.query_id = result.query_id}}

\* C15: on a query graph of 3 nodes of which exactly 2 have a match, the
\* subgraph that matches those 2 nodes has the score (cost_1 + cost_2 + 1) / 3,
\* one penalty unit for the unmatched node, and when it ranks first it is the
\* cost of the first graph returned.
\* With costs in units of 1/Scale: score = (sum + Scale) / (3 * Scale).
C15_ScenarioB ==
    (Ok /\ Cardinality(PersistedQueryNodes) = 3 /\ Cardinality(MatchedQueryNodes) = 2)
        => \A i \in DOMAIN Extracted :
              QueryEnds(Extracted[i]) = MatchedQueryNodes
                 => /\ Len(Extracted[i]) = 2
                    /\ result.scores[i].num * (3 * Scale)
                          = (CostSum(Range(Extracted[i])) + Scale) * result.scores[i].den
                    /\ result.scores[i].den > 0
                    /\ RankOf(i) = 1 => Graphs[1].cost = result.scores[i]

\* the subgraph of the two matched nodes returned first, with a cost above 0
\* on either pair
C15_Witness ==
    /\ Ok
    /\ Cardinality(PersistedQueryNodes) = 3
    /\ Cardinality(MatchedQueryNodes) = 2
    /\ \E i \in DOMAIN Extracted :
          /\ QueryEnds(Extracted[i]) = MatchedQueryNodes
          /\ RankOf(i) = 1
          /\ \A pr \in Range(Extracted[i]) : Costs[pr] > 0
          /\ Graphs[1].cost.num = CostSum(Range(Extracted[i])) + Scale

(***************************************************************************)
(* Claims about deleted queries (SpecHandles).                             *)
(***************************************************************************)
Tables == <<graphs, nodes, edges, queries, matches>>

\* C17: when QueryHandle.delete has returned, no match of the query is
\* stored; from then on, while no query with that id is stored again, no
\* match of it is stored and every call of __len__, execute, add_matches,
\* query_graph, target_graph or delete through a handle with that id raises
\* ValueError and leaves the tables as they were.
C17_Deleted ==
    [][/\ \A q \in DeletedOf(call') :
             (\A row \in queries' : row.query_id # q)
                => \A m \in matches' : m.query_id # q
       /\ (call' # call /\ call'.query_id \in DeletedOf(call)
             /\ ~QueryExists(call'.query_id))
            => /\ call'.kind = "error"
               /\ call'.raises = "ValueError"
               /\ UNCHANGED Tables]_vars

\* a query that had a match was deleted, and a later call of add_matches
\* through its handle raised
C17_Witness ==
    /\ call.pc = "handle"
    /\ call.op = "add_matches"
    /\ call.kind = "error"
    /\ call.query_id \in call.deleted
    /\ ~QueryExists(call.query_id)
    /\ call.purged > 0
    /\ matches = {}

(***************************************************************************)
(* Claims about the ids create gives (SpecCreate).                         *)
(***************************************************************************)
\* C18: no two stored queries have the same query_id (graphs is the set of
\* the stored graph_ids), and every create, also one that runs while another
\* client creates, returns a handle whose id no stored graph (resp. query) had
\* when the row was inserted.
C18_FreshIds ==
    /\ \A q1, q2 \in queries : q1.query_id = q2.query_id => q1 = q2
    /\ call.pc = "created" => (call.kind = "ok" /\ ~call.taken)
====
